---- MODULE Spec2Model ----
(***************************************************************************)
(* A model of midpoint-agi's plan decomposition (goal_decomposer.py) and   *)
(* of its git state-transition layer (tools.py).                           *)
(*                                                                         *)
(* Text is a sequence of one-character strings, so that strip, lower,      *)
(* split, startswith, int and the substring test are computed on the       *)
(* characters, as Python computes them.                                    *)
(***************************************************************************)
EXTENDS Integers, Sequences, FiniteSets, TLC

\* ----------------------------------------------------------------- state

VARIABLES
    dpc,         \* where decompose_goal stands: "Idle", "AwaitingModel", "Done"
    context,     \* the TaskContext of the call
    response,    \* the text the model answered with
    strategy,    \* the draft StrategyPlan the parser returned
    verdict,     \* what _validate_strategy said of the draft
    outcome,     \* what decompose_goal gave its caller: a plan or an exception
    modelCalls,  \* requests made to the model in this call
    tracked,     \* the points this call passed to track_points
    phases,      \* the phases the call went through, in order
    form,        \* how the response was put together, for the parser's inputs
    request      \* the request to the model: "none", "pending", "answered", "failed", "silent"

planVars ==
    <<dpc, context, response, strategy, verdict, outcome, modelCalls, tracked, phases, form, request>>

VARIABLES
    repo,      \* the working copy
    rpc,       \* where the running operation stands, "idle" between operations
    op,        \* the operation called last, with its arguments
    pre,       \* the working copy when that operation was called
    cmds,      \* the git commands that operation has run, in order
    observed,  \* the state check_repo_state gave that operation
    result     \* what the operation gave its caller

repoVars == <<repo, rpc, op, pre, cmds, observed, result>>

VARIABLES
    goals,     \* the goal store: the goal records on disk, by goal_id
    cli        \* decompose_existing_goal: where it stands, its argument, the calls it
               \* made to the decomposition agent, the agent's result, what it
               \* returned and the errors it logged

cliVars == <<goals, cli>>

\* ------------------------------------------------------------------ text

UpperLetters == <<"A","B","C","D","E","F","G","H","I","J","K","L","M","N","O","P","Q","R","S","T","U","V","W","X","Y","Z">>

LowerLetters == <<"a","b","c","d","e","f","g","h","i","j","k","l","m","n","o","p","q","r","s","t","u","v","w","x","y","z">>

DigitChars == <<"0","1","2","3","4","5","6","7","8","9">>

\* The characters str.strip() and str.split() treat as whitespace.
Whitespace == {" ", "\t", "\r", "\n"}

Range(s) == {s[i] : i \in DOMAIN s}

MinOf(S) == CHOOSE x \in S : \A y \in S : x <= y

MaxOf(S) == CHOOSE x \in S : \A y \in S : x >= y

\* The place of character c in the sequence s that holds it.
IndexIn(s, c) == CHOOSE i \in DOMAIN s : s[i] = c

\* str.lower(), one character.
LowerChar(c) == IF c \in Range(UpperLetters) THEN LowerLetters[IndexIn(UpperLetters, c)] ELSE c

\* str.lower()
Lower(s) == [i \in 1..Len(s) |-> LowerChar(s[i])]

\* The span of s from its first to its last kept position.
KeptSpan(s, keep) == IF keep = {} THEN <<>> ELSE SubSeq(s, MinOf(keep), MaxOf(keep))

\* str.strip(chars): drops the leading and the trailing characters that are in cs.
StripChars(s, cs) == KeptSpan(s, {i \in 1..Len(s) : s[i] \notin cs})

\* str.strip()
Strip(s) == StripChars(s, Whitespace)

\* str.startswith(p)
StartsWith(s, p) == Len(s) >= Len(p) /\ SubSeq(s, 1, Len(p)) = p

\* needle in hay
Contains(hay, needle) ==
    \E i \in 0..(Len(hay) - Len(needle)) : SubSeq(hay, i + 1, i + Len(needle)) = needle

\* The places of character c in s.
Places(s, c) == {i \in 1..Len(s) : s[i] = c}

\* The k-th smallest member of a set of numbers.
Nth(S, k) == CHOOSE x \in S : Cardinality({y \in S : y < x}) = k - 1

\* The pieces of s between the cuts at the places in at.
PiecesAt(s, at) ==
    [k \in 1..(Cardinality(at) + 1) |->
        SubSeq(s, (IF k = 1 THEN 0 ELSE Nth(at, k - 1)) + 1,
                  (IF k = Cardinality(at) + 1 THEN Len(s) + 1 ELSE Nth(at, k)) - 1)]

\* str.split(c): the pieces between the occurrences of the character c.
SplitChar(s, c) == PiecesAt(s, Places(s, c))

\* str.split(c, 1): at most one split, at the first occurrence.
SplitOnceAt(s, at) ==
    IF at = {} THEN <<s>>
    ELSE <<SubSeq(s, 1, MinOf(at) - 1), SubSeq(s, MinOf(at) + 1, Len(s))>>

\* The places where a word of s starts: a non-whitespace character at the start or
\* after a whitespace character.
WordStarts(s) ==
    {i \in 1..Len(s) : s[i] \notin Whitespace /\ (i = 1 \/ s[i - 1] \in Whitespace)}

\* The word of s that starts at place i runs to the last character before the next
\* whitespace.
WordAt(s, i) ==
    SubSeq(s, i, MinOf({j \in i..Len(s) : j = Len(s) \/ s[j + 1] \in Whitespace}))

\* str.split(): the maximal runs of non-whitespace characters.
SplitWords(s) ==
    [k \in 1..Cardinality(WordStarts(s)) |-> WordAt(s, Nth(WordStarts(s), k))]

IsDigit(c) == c \in Range(DigitChars)

RECURSIVE DigitsValue(_)
DigitsValue(ds) ==
    IF ds = <<>> THEN 0
    ELSE 10 * DigitsValue(SubSeq(ds, 1, Len(ds) - 1)) + (IndexIn(DigitChars, ds[Len(ds)]) - 1)

\* Decimal digits, single underscores allowed between digits.
WellFormedDigits(body) ==
    /\ body # <<>>
    /\ \A i \in 1..Len(body) : IsDigit(body[i]) \/ body[i] = "_"
    /\ IsDigit(body[1]) /\ IsDigit(body[Len(body)])
    /\ \A i \in 1..(Len(body) - 1) : ~(body[i] = "_" /\ body[i + 1] = "_")

IntOfSigned(negative, body) ==
    IF ~WellFormedDigits(body) THEN [ok |-> FALSE, val |-> 0]
    ELSE IF negative THEN [ok |-> TRUE, val |-> 0 - DigitsValue(SelectSeq(body, IsDigit))]
    ELSE [ok |-> TRUE, val |-> DigitsValue(SelectSeq(body, IsDigit))]

IntOfStripped(t) ==
    IF t # <<>> /\ t[1] \in {"+", "-"} THEN IntOfSigned(t[1] = "-", Tail(t))
    ELSE IntOfSigned(FALSE, t)

\* int(s): surrounding whitespace is dropped, then an optional sign and the digits.
\* ok = FALSE is ValueError.
IntOf(s) == IntOfStripped(Strip(s))

\* "\n".join(lines)
RECURSIVE JoinLines(_)
JoinLines(lines) ==
    IF lines = <<>> THEN <<>>
    ELSE IF Len(lines) = 1 THEN lines[1]
    ELSE lines[1] \o <<"\n">> \o JoinLines(Tail(lines))

\* -------------------------------------------------- PlanResponseParser

StrategyHeader == <<"s","t","r","a","t","e","g","y",":">>

StepsHeader == <<"s","t","e","p","s",":">>

ReasoningHeader == <<"r","e","a","s","o","n","i","n","g",":">>

PointsHeader == <<"p","o","i","n","t","s",":">>

\* The parser's locals before the first line.
ParserStart ==
    [current_section |-> "none", strategy_desc |-> <<>>, steps |-> <<>>,
     reasoning |-> <<>>, points |-> 0, raised |-> "none"]

\* parts[1] of line.split(":", 1): IndexError when the line holds no colon.
SecondPart(parts) ==
    IF Len(parts) < 2 THEN [raised |-> "IndexError", text |-> <<>>]
    ELSE [raised |-> "none", text |-> parts[2]]

AfterColon(line) == SecondPart(SplitOnceAt(line, Places(line, ":")))

\* A variant of the points: branch that lets the ValueError of int() escape.
PointsParsedUncaught(st, n) ==
    IF n.ok THEN [st EXCEPT !.points = n.val] ELSE [st EXCEPT !.raised = "ValueError"]

\* points = int(...), except ValueError: pass
PointsParsed(st, n) == IF n.ok THEN [st EXCEPT !.points = n.val] ELSE st

\* A variant of the points: branch in which a value that is no integer sets the
\* estimate back to 0.
PointsAfterResetting(st, rest) ==
    IF rest.raised # "none" THEN [st EXCEPT !.raised = rest.raised]
    ELSE IF IntOf(Strip(rest.text)).ok THEN PointsParsed(st, IntOf(Strip(rest.text)))
    ELSE [st EXCEPT !.points = 0]

PointsAfter(st, rest) ==
    IF rest.raised # "none" THEN [st EXCEPT !.raised = rest.raised]
    ELSE PointsParsed(st, IntOf(Strip(rest.text)))

ReasoningAfter(st, rest) ==
    IF rest.raised # "none" THEN [st EXCEPT !.raised = rest.raised]
    ELSE [st EXCEPT !.current_section = "reasoning", !.reasoning = Strip(rest.text)]

\* A bullet under steps: line.strip("- ").strip()
StepText(line) == Strip(StripChars(line, {"-", " "}))

\* The if/elif chain of the loop body, on the stripped line and its lower case.
Dispatch(st, line, lower) ==
    IF StartsWith(lower, StrategyHeader)
        THEN [st EXCEPT !.current_section = "strategy", !.strategy_desc = line]
    ELSE IF StartsWith(lower, StepsHeader)
        THEN [st EXCEPT !.current_section = "steps"]
    ELSE IF StartsWith(lower, ReasoningHeader)
        THEN ReasoningAfter(st, AfterColon(line))
    ELSE IF StartsWith(lower, PointsHeader)
        THEN PointsAfter(st, AfterColon(line))
    ELSE IF st.current_section = "steps" /\ StartsWith(line, <<"-">>)
        THEN [st EXCEPT !.steps = Append(@, StepText(line))]
    ELSE IF st.current_section = "reasoning" /\ ~StartsWith(lower, PointsHeader)
        THEN [st EXCEPT !.reasoning = @ \o <<" ">> \o line]
    ELSE st

\* The loop body after line = line.strip(): blank lines are skipped.
ParseStripped(st, line) ==
    IF st.raised # "none" \/ line = <<>> THEN st ELSE Dispatch(st, line, Lower(line))

\* One pass of the loop body over one line of the response.
ParseLine(st, rawLine) == ParseStripped(st, Strip(rawLine))

RECURSIVE ParseLines(_, _)
ParseLines(st, lines) ==
    IF lines = <<>> THEN st
    ELSE ParseLines(ParseLine(st, Head(lines)), Tail(lines))

\* The StrategyPlan built after the loop.
DraftPlan(st, text) ==
    [raised           |-> st.raised,
     steps            |-> st.steps,
     reasoning        |-> Strip(st.reasoning),
     estimated_points |-> st.points,
     strategy_description |-> st.strategy_desc,
     raw_response     |-> text]

\* _parse_response: the draft StrategyPlan, or the exception that left the loop.
ParseResponse(text) ==
    DraftPlan(ParseLines(ParserStart, SplitChar(text, "\n")), text)

\* ------------------------------------------------------- PlanValidator

\* The validator's errors, named as the specification names them; the values are
\* the messages the code raises them with.
EmptyPlan == "Strategy has no steps"

MissingReasoning == "Strategy has no reasoning"

InvalidPointEstimate == "Invalid point estimate"

BudgetExceeded == "Strategy exceeds available budget"

InsufficientCriteriaCoverage == "Strategy does not cover enough validation criteria"

Accepted == "accepted"

\* No goal in the context.
None == [none |-> TRUE]

\* Some word longer than 3 characters occurs in the lower-cased step.
AnyWordIn(criterion_words, step_lower) ==
    \E k \in 1..Len(criterion_words) :
        Len(criterion_words[k]) > 3 /\ Contains(step_lower, criterion_words[k])

\* The inner loops of the coverage check for one step and one criterion.
StepCovers(step, criterion) == AnyWordIn(SplitWords(Lower(criterion)), Lower(step))

\* criteria_covered: a set of criterion texts.
CriteriaCovered(steps, criteria) ==
    {criteria[j] : j \in {j \in 1..Len(criteria) :
                            \E i \in 1..Len(steps) : StepCovers(steps[i], criteria[j])}}

\* len(criteria_covered) < len(validation_criteria) * success_threshold, the
\* threshold held in tenths (0.5 is 5) so that the product is exact.
CoverageTooLow(steps, goal) ==
    Cardinality(CriteriaCovered(steps, goal.validation_criteria)) * 10
        < Len(goal.validation_criteria) * goal.success_threshold

\* A variant of the validator that looks at the estimate before the steps and the
\* reasoning.
ValidateStrategyPointsFirst(plan, ctx) ==
    IF plan.estimated_points <= 0 THEN InvalidPointEstimate
    ELSE IF plan.estimated_points > ctx.total_budget THEN BudgetExceeded
    ELSE IF plan.steps = <<>> THEN EmptyPlan
    ELSE IF plan.reasoning = <<>> THEN MissingReasoning
    ELSE IF ctx.goal = None \/ ctx.goal.validation_criteria = <<>> THEN Accepted
    ELSE IF CoverageTooLow(plan.steps, ctx.goal) THEN InsufficientCriteriaCoverage
    ELSE Accepted

\* _validate_strategy: the first failing check's error, or Accepted.
ValidateStrategy(plan, ctx) ==
    IF plan.steps = <<>> THEN EmptyPlan
    ELSE IF plan.reasoning = <<>> THEN MissingReasoning
    ELSE IF plan.estimated_points <= 0 THEN InvalidPointEstimate
    ELSE IF plan.estimated_points > ctx.total_budget THEN BudgetExceeded
    ELSE IF ctx.goal = None \/ ctx.goal.validation_criteria = <<>> THEN Accepted
    ELSE IF CoverageTooLow(plan.steps, ctx.goal) THEN InsufficientCriteriaCoverage
    ELSE Accepted

\* ------------------------------------------------------ GoalDecomposer

NoText == [present |-> FALSE, text |-> <<>>, raised |-> "none"]

Text(t) == [present |-> TRUE, text |-> t, raised |-> "none"]

\* The request to the model raised instead of answering.
NoAnswer(cause) == [present |-> FALSE, text |-> <<>>, raised |-> cause]

NoOutcome == [kind |-> "none"]

\* ValueError raised before the try block: the caller sees it as it is.
InvalidContext(message) == [kind |-> "InvalidContext", exception |-> "ValueError", message |-> message]

\* Exception(f"Error during goal decomposition: {str(e)}")
DecompositionFailed(cause) ==
    [kind |-> "DecompositionFailed", exception |-> "Exception",
     message |-> <<"Error during goal decomposition: ", cause>>]

Returned(plan) == [kind |-> "plan", plan |-> plan]

\* track_points("goal_decomposition", 10)
DecompositionPoints == 10

\* track_points(operation, points): the points accounting takes the points as
\* consumed by the operation.
TrackPoints(consumed, points) == consumed + points

\* A variant that returns the strategy whatever the validator said.
AfterValidateLenient(plan, v) ==
    [strategy |-> plan, verdict |-> v, phases |-> <<"ParsedDraft", "Validated">>,
     outcome |-> Returned(plan)]

\* After _validate_strategy: return the strategy, or wrap the validator's error.
AfterValidate(plan, v) ==
    IF v # Accepted
    THEN [strategy |-> plan, verdict |-> v, phases |-> <<"ParsedDraft", "Rejected">>,
          outcome |-> DecompositionFailed(v)]
    ELSE [strategy |-> plan, verdict |-> v, phases |-> <<"ParsedDraft", "Validated">>,
          outcome |-> Returned(plan)]

\* A variant that returns the parsed draft without validating it.
AfterParseUnvalidated(plan, ctx) ==
    IF plan.raised # "none"
    THEN [strategy |-> None, verdict |-> "unset", phases |-> <<"Rejected">>,
          outcome |-> DecompositionFailed(plan.raised)]
    ELSE [strategy |-> plan, verdict |-> "unset", phases |-> <<"ParsedDraft">>,
          outcome |-> Returned(plan)]

\* After _parse_response: validate the draft.
AfterParse(plan, ctx) ==
    IF plan.raised # "none"
    THEN [strategy |-> None, verdict |-> "unset", phases |-> <<"Rejected">>,
          outcome |-> DecompositionFailed(plan.raised)]
    ELSE AfterValidate(plan, ValidateStrategy(plan, ctx))

\* The try block from the model's answer on: parse, validate, return; any
\* exception is wrapped. A content of None has no split.
AfterResponse(content, ctx) ==
    IF ~content.present
    THEN [strategy |-> None, verdict |-> "unset", phases |-> <<"Rejected">>,
          outcome |-> DecompositionFailed("'NoneType' object has no attribute 'split'")]
    ELSE AfterParse(ParseResponse(content.text), ctx)

\* A variant of the input checks that lets a budget of zero through.
CheckContextLax(ctx) ==
    IF ctx.goal = None THEN "No goal provided in context"
    ELSE IF ctx.total_budget < 0 THEN "Invalid points budget"
    ELSE "ok"

\* The input checks of decompose_goal: the message of the ValueError, or "ok".
CheckContext(ctx) ==
    IF ctx.goal = None THEN "No goal provided in context"
    ELSE IF ctx.total_budget <= 0 THEN "Invalid points budget"
    ELSE "ok"

\* decompose_goal from its call to its suspension in the request to the model.
Decompose(ctx) ==
    /\ dpc \in {"Idle", "Done"}
    /\ context' = ctx
    /\ response' = NoText
    /\ strategy' = None
    /\ verdict' = "unset"
    /\ UNCHANGED form
    /\ IF CheckContext(ctx) # "ok"
       THEN /\ outcome' = InvalidContext(CheckContext(ctx))
            /\ dpc' = "Done"
            /\ modelCalls' = 0
            /\ tracked' = 0
            /\ phases' = <<"Idle">>
            /\ request' = "none"
       ELSE /\ outcome' = NoOutcome
            /\ dpc' = "AwaitingModel"
            /\ modelCalls' = 1
            /\ request' = "pending"
            /\ tracked' = TrackPoints(0, DecompositionPoints)
            /\ phases' = <<"Idle", "PromptBuilt", "AwaitingModel">>
    /\ UNCHANGED <<repoVars, cliVars>>

\* The model answers: response.choices[0].message.content is a text or None.
ModelAnswers(content) ==
    /\ dpc = "AwaitingModel"
    /\ request = "pending"
    /\ request' = "answered"
    /\ \E r \in {AfterResponse(content, context)} :
           /\ response' = content
           /\ strategy' = r.strategy
           /\ verdict' = r.verdict
           /\ outcome' = r.outcome
           /\ phases' = phases \o r.phases
    /\ dpc' = "Done"
    /\ UNCHANGED <<context, modelCalls, tracked, form>>
    /\ UNCHANGED <<repoVars, cliVars>>

\* The request raises (connection error, API error).
ModelFails(cause) ==
    /\ dpc = "AwaitingModel"
    /\ request = "pending"
    /\ request' = "failed"
    /\ response' = NoAnswer(cause)
    /\ outcome' = DecompositionFailed(cause)
    /\ phases' = phases \o <<"Rejected">>
    /\ dpc' = "Done"
    /\ UNCHANGED <<context, strategy, verdict, modelCalls, tracked, form>>
    /\ UNCHANGED <<repoVars, cliVars>>

\* The request is never answered: no response and no error come back. The await of
\* lines 75-83 has no timeout of its own, so decompose_goal stays suspended in it.
ModelSilent ==
    /\ dpc = "AwaitingModel"
    /\ request = "pending"
    /\ request' = "silent"
    /\ UNCHANGED <<dpc, context, response, strategy, verdict, outcome, modelCalls, tracked,
                   phases, form>>
    /\ UNCHANGED <<repoVars, cliVars>>

\* ------------------------------------------------------------- inputs

MaxBudget == 2

MaxReplyLines == 4

MaxLines == 4

MaxBullets == 2

MaxSteps == 2

MaxCriteria == 2

\* All sequences over S of length at most n.
SeqsUpTo(S, n) == UNION {[1..k -> S] : k \in 0..n}

TestsPass == <<"T","e","s","t","s"," ","p","a","s","s">>

DocumentationUpdated == <<"D","o","c","u","m","e","n","t","a","t","i","o","n"," ","u","p","d","a","t","e","d">>

RunIt == <<"R","u","n"," ","i","t">>

WriteTestsThatPass == <<"W","r","i","t","e"," ","t","e","s","t","s"," ","t","h","a","t"," ","p","a","s","s">>

ShipCode == <<"S","h","i","p"," ","c","o","d","e">>

BecauseItIsSafe == <<"b","e","c","a","u","s","e"," ","i","t"," ","i","s"," ","s","a","f","e">>

Goal(criteria, threshold) ==
    [description |-> <<"T","e","s","t"," ","g","o","a","l">>, validation_criteria |-> criteria, success_threshold |-> threshold]

TaskContext(goal, consumed, budget) ==
    [goal |-> goal, points_consumed |-> consumed, total_budget |-> budget]

\* The contexts decompose_goal is called with.
Contexts ==
    {TaskContext(g, c, b) :
        g \in {None, Goal(<<>>, 10), Goal(<<TestsPass, DocumentationUpdated>>, 5),
               Goal(<<TestsPass, DocumentationUpdated>>, 6)},
        c \in {0, MaxBudget + 1},
        b \in -1..MaxBudget}

\* The lines the model's answers are made of.
ReplyLines ==
    { <<"S","t","e","p","s",":">>,
      <<"-"," ","W","r","i","t","e"," ","t","e","s","t","s"," ","t","h","a","t"," ","p","a","s","s">>,
      <<"R","e","a","s","o","n","i","n","g",":"," ","b","e","c","a","u","s","e"," ","i","t"," ","i","s"," ","s","a","f","e">>,
      <<"P","o","i","n","t","s",":"," ","2">>,
      <<"P","o","i","n","t","s",":"," ","m","a","n","y">> }

ModelReplies == {Text(JoinLines(ls)) : ls \in SeqsUpTo(ReplyLines, MaxReplyLines)} \cup {NoText}

\* ---------------------------------------- the parser and validator alone

\* _parse_response applied to a response text.
Parse ==
    /\ dpc = "Idle"
    /\ response.present
    /\ strategy = None
    /\ strategy' = ParseResponse(response.text)
    /\ UNCHANGED <<dpc, context, response, verdict, outcome, modelCalls, tracked, phases, form,
                   request>>
    /\ UNCHANGED <<repoVars, cliVars>>

\* _validate_strategy applied to a draft plan and a context.
Validate ==
    /\ dpc = "Idle"
    /\ strategy # None
    /\ strategy.raised = "none"
    /\ verdict = "unset"
    /\ verdict' = ValidateStrategy(strategy, context)
    /\ UNCHANGED <<dpc, context, response, strategy, outcome, modelCalls, tracked, phases, form,
                   request>>
    /\ UNCHANGED <<repoVars, cliVars>>

\* A StrategyPlan with the given steps, reasoning and estimate.
StrategyPlan(steps, reasoning, estimated_points) ==
    [raised |-> "none", steps |-> steps, reasoning |-> reasoning,
     estimated_points |-> estimated_points,
     strategy_description |-> <<>>, raw_response |-> <<>>]

StepTexts == {WriteTestsThatPass, ShipCode}

CriterionTexts == {TestsPass, DocumentationUpdated, RunIt}

\* The draft plans the validator is given.
DraftPlans ==
    {StrategyPlan(s, r, p) :
        s \in SeqsUpTo(StepTexts, MaxSteps),
        r \in {<<>>, BecauseItIsSafe},
        p \in -1..(MaxBudget + 1)}

\* The contexts the validator is given.
ValidatorContexts ==
    {TaskContext(g, 0, b) :
        g \in {None} \cup {Goal(c, t) : c \in SeqsUpTo(CriterionTexts, MaxCriteria), t \in {5, 6, 10}},
        b \in 1..MaxBudget}

\* A response of the form the parser is written for: a Strategy: line, a Steps:
\* line, one line per bullet, a Reasoning: line and a Points: line, with one blank
\* line put after line blank_after (none when 0).
PlanForm(steps_header, bullets, reasoning_header, reasoning, points, blank_after) ==
    [kind |-> "plan", steps_header |-> steps_header, bullets |-> bullets,
     reasoning_header |-> reasoning_header, reasoning |-> reasoning,
     points |-> points, blank_after |-> blank_after]

\* A response made of the given lines.
LinesForm(lines) == [kind |-> "lines", lines |-> lines]

\* The decimal text of a number below 100.
Decimal(n) ==
    IF n < 10 THEN <<DigitChars[n + 1]>>
    ELSE <<DigitChars[(n \div 10) + 1], DigitChars[(n % 10) + 1]>>

BulletLine(text) == <<"-", " ">> \o text

\* The lines of a response of the plan form, before the blank line is put in.
PlanLines(f) ==
    << <<"S","t","r","a","t","e","g","y",":"," ","U","s","e"," ","T","D","D">>, f.steps_header >>
        \o [i \in 1..Len(f.bullets) |-> BulletLine(f.bullets[i])]
        \o << f.reasoning_header \o <<" ">> \o f.reasoning,
              <<"P","o","i","n","t","s",":"," ">> \o Decimal(f.points) >>

WithBlankAfter(lines, k) ==
    IF k = 0 THEN lines
    ELSE SubSeq(lines, 1, k) \o << <<>> >> \o SubSeq(lines, k + 1, Len(lines))

\* The text of a response of either form.
Render(f) ==
    IF f.kind = "lines" THEN JoinLines(f.lines)
    ELSE JoinLines(WithBlankAfter(PlanLines(f), f.blank_after))

BulletTexts == { <<"W","r","i","t","e"," ","t","e","s","t">>, <<"I","m","p","l","e","m","e","n","t">>, <<"P","r","e","f","i","x"," ","i","d","s"," ","w","i","t","h"," ","u","s","e","r","-">> }

\* The responses of the plan form given to the parser.
PlanForms ==
    {PlanForm(sh, bs, rh, BecauseItIsSafe, p, k) :
        sh \in { <<"S","t","e","p","s",":">>, <<"S","T","E","P","S",":">> },
        bs \in SeqsUpTo(BulletTexts, MaxBullets) \ {<<>>},
        rh \in { <<"R","e","a","s","o","n","i","n","g",":">>, <<"r","e","a","s","o","n","i","n","g",":">> },
        p \in {5, 12},
        k \in 0..(MaxBullets + 4)}

\* The lines the free-form responses given to the parser are made of.
ParserLines ==
    { <<"S","t","r","a","t","e","g","y",":"," ","U","s","e"," ","T","D","D">>,
      <<"S","T","E","P","S",":">>,
      <<"-"," ","W","r","i","t","e"," ","t","e","s","t">>,
      <<" ","-"," ">>,
      <<"R","e","a","s","o","n","i","n","g",":"," ","b","e","c","a","u","s","e"," ","i","t"," ","i","s"," ","s","a","f","e">>,
      <<"P","o","i","n","t","s",":"," ","5">>,
      <<"p","o","i","n","t","s",":"," ","m","a","n","y">>,
      <<"P","O","I","N","T","S",":","1","2">>,
      <<"t","h","e","n"," ","d","e","p","l","o","y">>,
      <<>> }

ParserForms ==
    {f \in PlanForms : f.blank_after <= Len(f.bullets) + 4}
        \cup {LinesForm(ls) : ls \in SeqsUpTo(ParserLines, MaxLines)}

InitPlan ==
    /\ dpc = "Idle"
    /\ context = TaskContext(None, 0, 0)
    /\ response = NoText
    /\ strategy = None
    /\ verdict = "unset"
    /\ outcome = NoOutcome
    /\ modelCalls = 0
    /\ tracked = 0
    /\ phases = <<>>
    /\ request = "none"
    /\ form = None

NextDecomposer ==
    \/ \E ctx \in Contexts : Decompose(ctx)
    \/ \E content \in ModelReplies : ModelAnswers(content)
    \/ \E cause \in {"Connection error.", "Request timed out."} : ModelFails(cause)

\* ------------------------------------------------- the git repository

\* The working copy: HEAD's commit, the branch checked out, every branch's tip, the
\* number of commits made (commit n has the hash HashOf(n)), and whether the index
\* holds staged changes, tracked files hold unstaged changes, untracked files exist;
\* merging: a merge has been started and not concluded (MERGE_HEAD exists);
\* unmerged: the index holds paths with unresolved conflicts.
Repository(head, branch, branches, commits, staged, unstaged, untracked) ==
    [head |-> head, branch |-> branch, branches |-> branches, commits |-> commits,
     staged |-> staged, unstaged |-> unstaged, untracked |-> untracked,
     merging |-> FALSE, unmerged |-> FALSE]

\* The hash of the n-th commit, as git prints it.
HashOf(n) == <<"c", "0", "d", "e", DigitChars[n + 1]>>

\* The commit a hash names, 0 when no commit has it.
CommitOf(r, hash) ==
    IF \E n \in 1..r.commits : HashOf(n) = hash
    THEN CHOOSE n \in 1..r.commits : HashOf(n) = hash
    ELSE 0

\* What a git command gave: its exit status, its standard output, the repository
\* it left.
Ran(rc, stdout, after) == [rc |-> rc, stdout |-> stdout, repo |-> after]

\* git status --porcelain: one line per changed path, nothing when clean.
GitStatus(r) ==
    Ran(0,
        (IF r.unmerged THEN <<"U","U"," ","f",".","t","x","t">> \o <<"\n">> ELSE <<>>)
            \o (IF r.staged THEN <<"M"," "," ","a",".","t","x","t">> \o <<"\n">> ELSE <<>>)
            \o (IF r.unstaged THEN <<" ","M"," ","b",".","t","x","t">> \o <<"\n">> ELSE <<>>)
            \o (IF r.untracked THEN <<"?","?"," ","c",".","t","x","t">> \o <<"\n">> ELSE <<>>),
        r)

\* git checkout -b name: refused when the branch exists; the new branch starts at
\* HEAD and local changes are carried along; a merge in progress is dropped, the
\* unmerged paths of the index stay.
GitCheckoutNew(r, name) ==
    IF name \in DOMAIN r.branches THEN Ran(128, <<>>, r)
    ELSE Ran(0, <<>>,
             [r EXCEPT !.branch = name,
                       !.branches = [b \in DOMAIN r.branches \cup {name} |->
                                        IF b = name THEN r.head ELSE r.branches[b]],
                       !.merging = FALSE])

\* git reset --hard hash: refused for an unknown hash; moves HEAD and the current
\* branch, and drops the staged and unstaged changes (untracked files stay) and a
\* merge in progress.
GitResetHard(r, hash) ==
    IF CommitOf(r, hash) = 0 THEN Ran(128, <<>>, r)
    ELSE Ran(0, <<>>,
             [r EXCEPT !.head = CommitOf(r, hash),
                       !.branches[r.branch] = CommitOf(r, hash),
                       !.staged = FALSE, !.unstaged = FALSE,
                       !.merging = FALSE, !.unmerged = FALSE])

\* git add . : stages every unstaged change, every untracked file and every
\* unmerged path as it stands.
GitAddAll(r) ==
    Ran(0, <<>>,
        [r EXCEPT !.staged = r.staged \/ r.unstaged \/ r.untracked \/ r.unmerged,
                  !.unstaged = FALSE, !.untracked = FALSE, !.unmerged = FALSE])

\* git commit -m message: refused when the message is empty, when paths are
\* unmerged, and when nothing is staged unless the commit concludes a merge; the
\* new commit becomes HEAD and the current branch's tip.
GitCommit(r, message) ==
    IF (~r.staged /\ ~r.merging) \/ r.unmerged \/ message = <<>> THEN Ran(1, <<>>, r)
    ELSE Ran(0, <<>>,
             [r EXCEPT !.commits = r.commits + 1, !.head = r.commits + 1,
                       !.branches[r.branch] = r.commits + 1, !.staged = FALSE,
                       !.merging = FALSE])

\* git rev-parse HEAD
GitRevParseHead(r) == Ran(0, HashOf(r.head) \o <<"\n">>, r)

\* git rev-parse --abbrev-ref HEAD
GitRevParseBranch(r) == Ran(0, r.branch \o <<"\n">>, r)

\* git checkout name: refused for an unknown branch and while paths are unmerged;
\* HEAD moves to the branch's tip and a merge in progress is dropped.
GitCheckout(r, name) ==
    IF name \notin DOMAIN r.branches \/ r.unmerged THEN Ran(1, <<>>, r)
    ELSE Ran(0, <<>>, [r EXCEPT !.branch = name, !.head = r.branches[name],
                                !.merging = FALSE])

\* git merge, stopping on a conflict: the merge is in progress and the index holds
\* unmerged paths. git refuses to start a merge over staged or unstaged changes.
GitMergeConflict(r) ==
    IF r.staged \/ r.unstaged \/ r.unmerged \/ r.merging THEN Ran(1, <<>>, r)
    ELSE Ran(1, <<>>, [r EXCEPT !.merging = TRUE, !.unmerged = TRUE])

\* git checkout --ours and git add on the conflicting paths: nothing is unmerged
\* any more, the index equals HEAD, and the merge is still to be concluded.
GitResolveOurs(r) == Ran(0, <<>>, [r EXCEPT !.unmerged = FALSE])

\* ------------------------------------------------ RepositoryStateManager

NoResult == [kind |-> "none"]

Ok(value) == [kind |-> "ok", value |-> value]

\* An exception: the kind the specification gives it, its Python class, its message.
Raised(kind, exception, message) == [kind |-> kind, exception |-> exception, message |-> message]

PreconditionFailed(message) == Raised("PreconditionFailed", "RuntimeError", message)

GitCommandFailed(message) == Raised("GitCommandFailed", "RuntimeError", message)

StateMismatch(message) == Raised("StateMismatch", "ValueError", message)

\* any(line.startswith("??") for line in status.splitlines())
AnyUntracked(lines) == \E i \in 1..Len(lines) : StartsWith(lines[i], <<"?", "?">>)

\* The dictionary check_repo_state builds from the output of git status.
StateOf(has_uncommitted, has_untracked) ==
    [is_clean |-> ~(has_uncommitted \/ has_untracked),
     has_uncommitted |-> has_uncommitted,
     has_untracked |-> has_untracked,
     has_merge_conflicts |-> FALSE,
     has_rebase_conflicts |-> FALSE]

\* check_repo_state after git status has run.
CheckRepoState(run) ==
    IF run.rc # 0 THEN GitCommandFailed("Git status failed")
    ELSE Ok(StateOf(run.stdout # <<>>, AnyUntracked(SplitChar(run.stdout, "\n"))))

\* get_current_hash after git rev-parse HEAD has run.
GetCurrentHash(run) ==
    IF run.rc # 0 THEN GitCommandFailed("Failed to get current hash")
    ELSE Ok(Strip(run.stdout))

\* random.choices(string.ascii_lowercase + string.digits, k=6)
SuffixLength == 6

\* A variant of the name that leaves the separator out.
BranchNameUndashed(base_name, suffix) == base_name \o suffix

\* f"{base_name}-{suffix}"
BranchName(base_name, suffix) == base_name \o <<"-">> \o suffix

Finish(res) == rpc' = "idle" /\ result' = res

\* An operation is called: nothing of it has run yet.
Begin(o, first) ==
    /\ op' = o
    /\ pre' = repo
    /\ cmds' = <<>>
    /\ observed' = None
    /\ result' = NoResult
    /\ rpc' = first
    /\ UNCHANGED repo
    /\ UNCHANGED <<planVars, cliVars>>

\* check_repo_state, called on its own.
Inspect ==
    /\ rpc = "inspect"
    /\ cmds' = Append(cmds, "status")
    /\ \E st \in {CheckRepoState(GitStatus(repo))} :
           /\ observed' = st
           /\ Finish(st)
    /\ UNCHANGED <<repo, op, pre>>
    /\ UNCHANGED <<planVars, cliVars>>

\* A variant of the state check of revert_to_hash that goes on to the reset
\* whatever the state is.
RevertCheckUnguarded ==
    /\ rpc = "revert_check"
    /\ cmds' = Append(cmds, "status")
    /\ \E st \in {CheckRepoState(GitStatus(repo))} :
           /\ observed' = st
           /\ IF st.kind # "ok" THEN Finish(st)
              ELSE rpc' = "revert_reset" /\ UNCHANGED result
    /\ UNCHANGED <<repo, op, pre>>
    /\ UNCHANGED <<planVars, cliVars>>

\* revert_to_hash up to its reset: the state check.
RevertCheck ==
    /\ rpc = "revert_check"
    /\ cmds' = Append(cmds, "status")
    /\ \E st \in {CheckRepoState(GitStatus(repo))} :
           /\ observed' = st
           /\ IF st.kind # "ok" THEN Finish(st)
              ELSE IF ~st.value.is_clean
              THEN Finish(PreconditionFailed("Cannot revert: repository has uncommitted changes"))
              ELSE rpc' = "revert_reset" /\ UNCHANGED result
    /\ UNCHANGED <<repo, op, pre>>
    /\ UNCHANGED <<planVars, cliVars>>

\* A variant of the hard reset that does not look at the exit status.
RevertResetUnchecked ==
    /\ rpc = "revert_reset"
    /\ cmds' = Append(cmds, "reset")
    /\ \E run \in {GitResetHard(repo, op.git_hash)} :
           /\ repo' = run.repo
           /\ Finish(Ok(None))
    /\ UNCHANGED <<op, pre, observed>>
    /\ UNCHANGED <<planVars, cliVars>>

\* revert_to_hash: the hard reset.
RevertReset ==
    /\ rpc = "revert_reset"
    /\ cmds' = Append(cmds, "reset")
    /\ \E run \in {GitResetHard(repo, op.git_hash)} :
           /\ repo' = run.repo
           /\ Finish(IF run.rc # 0 THEN GitCommandFailed("Failed to revert to hash") ELSE Ok(None))
    /\ UNCHANGED <<op, pre, observed>>
    /\ UNCHANGED <<planVars, cliVars>>

\* checkout_branch up to its checkout: the state check.
CheckoutCheck ==
    /\ rpc = "checkout_check"
    /\ cmds' = Append(cmds, "status")
    /\ \E st \in {CheckRepoState(GitStatus(repo))} :
           /\ observed' = st
           /\ IF st.kind # "ok" THEN Finish(st)
              ELSE IF ~st.value.is_clean
              THEN Finish(PreconditionFailed("Cannot checkout: repository has uncommitted changes"))
              ELSE rpc' = "checkout_switch" /\ UNCHANGED result
    /\ UNCHANGED <<repo, op, pre>>
    /\ UNCHANGED <<planVars, cliVars>>

\* A variant of the checkout that derives the status again right before it acts.
CheckoutSwitchRechecked ==
    /\ rpc = "checkout_switch"
    /\ cmds' = Append(cmds, "checkout")
    /\ \E run \in {GitCheckout(repo, op.branch_name)} :
           IF ~CheckRepoState(GitStatus(repo)).value.is_clean
           THEN /\ UNCHANGED repo
                /\ Finish(PreconditionFailed("Cannot checkout: repository has uncommitted changes"))
           ELSE /\ repo' = run.repo
                /\ Finish(IF run.rc # 0 THEN GitCommandFailed("Failed to checkout branch")
                          ELSE Ok(None))
    /\ UNCHANGED <<op, pre, observed>>
    /\ UNCHANGED <<planVars, cliVars>>

\* checkout_branch: the checkout.
CheckoutSwitch ==
    /\ rpc = "checkout_switch"
    /\ cmds' = Append(cmds, "checkout")
    /\ \E run \in {GitCheckout(repo, op.branch_name)} :
           /\ repo' = run.repo
           /\ Finish(IF run.rc # 0 THEN GitCommandFailed("Failed to checkout branch") ELSE Ok(None))
    /\ UNCHANGED <<op, pre, observed>>
    /\ UNCHANGED <<planVars, cliVars>>

\* A variant of create_branch that switches to the branch when it exists already.
CreateBranchReusing ==
    /\ rpc = "create_branch"
    /\ cmds' = Append(cmds, "checkout -b")
    /\ \E run \in {GitCheckoutNew(repo, BranchName(op.base_name, op.suffix))} :
           /\ repo' = IF run.rc # 0
                      THEN GitCheckout(repo, BranchName(op.base_name, op.suffix)).repo
                      ELSE run.repo
           /\ Finish(Ok(BranchName(op.base_name, op.suffix)))
    /\ UNCHANGED <<op, pre, observed>>
    /\ UNCHANGED <<planVars, cliVars>>

\* create_branch: the name was drawn at the call; git checkout -b.
CreateBranch ==
    /\ rpc = "create_branch"
    /\ cmds' = Append(cmds, "checkout -b")
    /\ \E run \in {GitCheckoutNew(repo, BranchName(op.base_name, op.suffix))} :
           /\ repo' = run.repo
           /\ Finish(IF run.rc # 0 THEN GitCommandFailed("Failed to create branch")
                     ELSE Ok(BranchName(op.base_name, op.suffix)))
    /\ UNCHANGED <<op, pre, observed>>
    /\ UNCHANGED <<planVars, cliVars>>

\* create_commit: git add .
CommitAdd ==
    /\ rpc = "commit_add"
    /\ cmds' = Append(cmds, "add")
    /\ \E run \in {GitAddAll(repo)} :
           /\ repo' = run.repo
           /\ IF run.rc # 0 THEN Finish(GitCommandFailed("Failed to add changes"))
              ELSE rpc' = "commit_commit" /\ UNCHANGED result
    /\ UNCHANGED <<op, pre, observed>>
    /\ UNCHANGED <<planVars, cliVars>>

\* create_commit: git commit -m message
CommitCommit ==
    /\ rpc = "commit_commit"
    /\ cmds' = Append(cmds, "commit")
    /\ \E run \in {GitCommit(repo, op.message)} :
           /\ repo' = run.repo
           /\ IF run.rc # 0 THEN Finish(GitCommandFailed("Failed to create commit"))
              ELSE rpc' = "commit_hash" /\ UNCHANGED result
    /\ UNCHANGED <<op, pre, observed>>
    /\ UNCHANGED <<planVars, cliVars>>

\* A variant of create_commit that returns the hash it had read before committing.
CommitHashStale ==
    /\ rpc = "commit_hash"
    /\ cmds' = Append(cmds, "rev-parse")
    /\ \E run \in {GitRevParseHead(pre)} :
           Finish(IF run.rc # 0 THEN GitCommandFailed("Failed to get commit hash")
                  ELSE Ok(Strip(run.stdout)))
    /\ UNCHANGED <<repo, op, pre, observed>>
    /\ UNCHANGED <<planVars, cliVars>>

\* create_commit: the hash is read back with git rev-parse HEAD.
CommitHash ==
    /\ rpc = "commit_hash"
    /\ cmds' = Append(cmds, "rev-parse")
    /\ \E run \in {GitRevParseHead(repo)} :
           Finish(IF run.rc # 0 THEN GitCommandFailed("Failed to get commit hash")
                  ELSE Ok(Strip(run.stdout)))
    /\ UNCHANGED <<repo, op, pre, observed>>
    /\ UNCHANGED <<planVars, cliVars>>

\* get_current_hash
CurrentHash ==
    /\ rpc = "current_hash"
    /\ cmds' = Append(cmds, "rev-parse")
    /\ Finish(GetCurrentHash(GitRevParseHead(repo)))
    /\ UNCHANGED <<repo, op, pre, observed>>
    /\ UNCHANGED <<planVars, cliVars>>

\* get_current_branch
CurrentBranch ==
    /\ rpc = "current_branch"
    /\ cmds' = Append(cmds, "rev-parse --abbrev-ref")
    /\ \E run \in {GitRevParseBranch(repo)} :
           Finish(IF run.rc # 0 THEN GitCommandFailed("Failed to get current branch")
                  ELSE Ok(Strip(run.stdout)))
    /\ UNCHANGED <<repo, op, pre, observed>>
    /\ UNCHANGED <<planVars, cliVars>>

\* validate_repository_state up to its hash query: the state check.
ValidateCheck ==
    /\ rpc = "validate_check"
    /\ cmds' = Append(cmds, "status")
    /\ \E st \in {CheckRepoState(GitStatus(repo))} :
           /\ observed' = st
           /\ IF st.kind # "ok" THEN Finish(st)
              ELSE IF ~st.value.is_clean
              THEN Finish(StateMismatch("Repository is not in a clean state"))
              ELSE rpc' = "validate_hash" /\ UNCHANGED result
    /\ UNCHANGED <<repo, op, pre>>
    /\ UNCHANGED <<planVars, cliVars>>

\* A variant of the hash comparison that accepts any current hash.
ValidateHashLax ==
    /\ rpc = "validate_hash"
    /\ cmds' = Append(cmds, "rev-parse")
    /\ \E current \in {GetCurrentHash(GitRevParseHead(repo))} :
           Finish(IF current.kind # "ok" THEN current ELSE Ok(None))
    /\ UNCHANGED <<repo, op, pre, observed>>
    /\ UNCHANGED <<planVars, cliVars>>

\* validate_repository_state: the current hash against the expected one.
ValidateHash ==
    /\ rpc = "validate_hash"
    /\ cmds' = Append(cmds, "rev-parse")
    /\ \E current \in {GetCurrentHash(GitRevParseHead(repo))} :
           Finish(IF current.kind # "ok" THEN current
                  ELSE IF current.value # op.expected_hash
                  THEN StateMismatch("Repository hash mismatch")
                  ELSE Ok(None))
    /\ UNCHANGED <<repo, op, pre, observed>>
    /\ UNCHANGED <<planVars, cliVars>>

\* edit_file: writes a file of the working copy. A file that is missing is created
\* only with create_if_missing, else ValueError.
EditFile(exists, create_if_missing) ==
    /\ rpc = "idle"
    /\ op' = [name |-> "edit_file", exists |-> exists, create_if_missing |-> create_if_missing]
    /\ pre' = repo
    /\ cmds' = <<>>
    /\ observed' = None
    /\ rpc' = "idle"
    /\ IF ~exists /\ ~create_if_missing
       THEN /\ result' = Raised("FileNotFound", "ValueError", "File does not exist")
            /\ UNCHANGED repo
       ELSE /\ result' = Ok(None)
            /\ repo' = IF exists THEN [repo EXCEPT !.unstaged = TRUE]
                       ELSE [repo EXCEPT !.untracked = TRUE]
    /\ UNCHANGED <<planVars, cliVars>>

\* Someone starts a merge in the working copy, between two operations, and it stops
\* on a conflict.
MergeStops ==
    /\ rpc = "idle"
    /\ ~(repo.staged \/ repo.unstaged \/ repo.unmerged \/ repo.merging)
    /\ op' = [name |-> "git merge"]
    /\ pre' = repo
    /\ cmds' = <<>>
    /\ observed' = None
    /\ result' = NoResult
    /\ repo' = GitMergeConflict(repo).repo
    /\ UNCHANGED rpc
    /\ UNCHANGED <<planVars, cliVars>>

\* The conflicts are resolved in favour of HEAD; the merge is not concluded.
MergeResolved ==
    /\ rpc = "idle"
    /\ repo.merging
    /\ repo.unmerged
    /\ op' = [name |-> "git checkout --ours"]
    /\ pre' = repo
    /\ cmds' = <<>>
    /\ observed' = None
    /\ result' = NoResult
    /\ repo' = GitResolveOurs(repo).repo
    /\ UNCHANGED rpc
    /\ UNCHANGED <<planVars, cliVars>>

\* A second pipeline on the same path writes a file while an operation of the first
\* is suspended in one of its git commands: edit_file, on a file that exists or on
\* a new one. Nothing in tools.py holds the working copy for the first.
OtherPipelineEdits(exists) ==
    /\ rpc # "idle"
    /\ repo' = IF exists THEN [repo EXCEPT !.unstaged = TRUE]
               ELSE [repo EXCEPT !.untracked = TRUE]
    /\ UNCHANGED <<rpc, op, pre, cmds, observed, result>>
    /\ UNCHANGED <<planVars, cliVars>>

\* ------------------------------------------------- the repository's inputs

MaxCommits == 2

Main == <<"m","a","i","n">>

BaseNames == { <<"g","o","a","l","-","1">> }

\* The suffixes drawn in this model: SuffixLength characters of the alphabet.
SampleSuffixes ==
    {[i \in 1..SuffixLength |-> c] : c \in {"k", "7"}}

HashInputs == {HashOf(n) : n \in 1..MaxCommits} \cup {<<"f","f","f","f","0">>}

BranchInputs == {Main, <<"n","o","w","h","e","r","e">>} \cup {BranchName(b, s) : b \in BaseNames, s \in SampleSuffixes}

Messages == { <<"c","h","e","c","k","p","o","i","n","t">>, <<>> }

\* The calls of the repository operations, each with the place its body starts at.
CallRevert ==
    /\ rpc = "idle"
    /\ \E h \in HashInputs : Begin([name |-> "revert_to_hash", git_hash |-> h], "revert_check")

CallCheckout ==
    /\ rpc = "idle"
    /\ \E b \in BranchInputs : Begin([name |-> "checkout_branch", branch_name |-> b], "checkout_check")

\* The suffix is drawn before git runs.
CallCreateBranch ==
    /\ rpc = "idle"
    /\ \E b \in BaseNames, s \in SampleSuffixes :
           Begin([name |-> "create_branch", base_name |-> b, suffix |-> s], "create_branch")

CallCommit ==
    /\ rpc = "idle"
    /\ repo.commits < MaxCommits
    /\ \E m \in Messages : Begin([name |-> "create_commit", message |-> m], "commit_add")

CallValidate ==
    /\ rpc = "idle"
    /\ \E h \in HashInputs :
           Begin([name |-> "validate_repository_state", expected_hash |-> h], "validate_check")

CallInspect ==
    /\ rpc = "idle"
    /\ Begin([name |-> "check_repo_state"], "inspect")

CallCurrentHash ==
    /\ rpc = "idle"
    /\ Begin([name |-> "get_current_hash"], "current_hash")

CallCurrentBranch ==
    /\ rpc = "idle"
    /\ Begin([name |-> "get_current_branch"], "current_branch")

InitRepo ==
    /\ repo = Repository(1, Main, [b \in {Main} |-> 1], 1, FALSE, FALSE, FALSE)
    /\ rpc = "idle"
    /\ op = [name |-> "none"]
    /\ pre = repo
    /\ cmds = <<>>
    /\ observed = None
    /\ result = NoResult

NextRepo ==
    \/ CallRevert \/ CallCheckout \/ CallCreateBranch \/ CallCommit \/ CallValidate
    \/ CallInspect \/ CallCurrentHash \/ CallCurrentBranch
    \/ Inspect \/ RevertCheck \/ RevertReset \/ CheckoutCheck \/ CheckoutSwitch
    \/ CreateBranch \/ CommitAdd \/ CommitCommit \/ CommitHash
    \/ CurrentHash \/ CurrentBranch \/ ValidateCheck \/ ValidateHash
    \/ \E exists \in BOOLEAN, create \in BOOLEAN : EditFile(exists, create)
    \/ MergeStops \/ MergeResolved

\* ------------------------------------------------------------- goal_cli

\* A goal record of the store.
GoalRecord(goal_id, description) ==
    [goal_id |-> goal_id, description |-> description, parent_goal |-> ""]

\* The keyword arguments the decomposition agent is called with.
AgentRequest(record) == [goal |-> record.description, parent_goal |-> record.goal_id]

\* A variant that takes any result of the agent for a success.
AgentOutcomeLenient(res) == [returned |-> TRUE, errors |-> <<>>]

\* What decompose_existing_goal makes of the agent's result: True on success, else
\* False with the carried error logged.
AgentOutcome(res) ==
    IF res.success THEN [returned |-> TRUE, errors |-> <<>>]
    ELSE [returned |-> FALSE, errors |-> << <<"Failed to decompose goal: ", res.error>> >>]

\* decompose_existing_goal(goal_id) up to its call of the agent: a goal_id without
\* record is logged and answered with False.
DecomposeExistingGoal(goal_id) ==
    /\ cli.pc \in {"idle", "done"}
    /\ cli' = IF goal_id \in DOMAIN goals
              THEN [pc |-> "agent", goal_id |-> goal_id,
                    agent_calls |-> <<AgentRequest(goals[goal_id])>>,
                    agent_result |-> None, returned |-> None, errors |-> <<>>]
              ELSE [pc |-> "done", goal_id |-> goal_id, agent_calls |-> <<>>,
                    agent_result |-> None, returned |-> FALSE,
                    errors |-> << <<"Goal ", goal_id, " not found">> >>]
    /\ UNCHANGED goals
    /\ UNCHANGED <<planVars, repoVars>>

\* The agent returns its result: decompose_existing_goal returns.
AgentReturns(res) ==
    /\ cli.pc = "agent"
    /\ cli' = [cli EXCEPT !.pc = "done", !.agent_result = res,
                          !.returned = AgentOutcome(res).returned,
                          !.errors = AgentOutcome(res).errors]
    /\ UNCHANGED goals
    /\ UNCHANGED <<planVars, repoVars>>

GoalIds == {"G1", "G2", "NonExistentGoal"}

\* The goal stores: some of G1 and G2 on disk, each with a description.
GoalStores ==
    UNION {{[g \in ids |-> GoalRecord(g, d[g])] : d \in [ids -> {"Test goal", "Other goal"}]} :
               ids \in SUBSET {"G1", "G2"}}

\* The results of the agent: a subgoal, or a failure with its error.
AgentResults ==
    {[success |-> TRUE, next_step |-> n, requires_further_decomposition |-> r] :
         n \in {"Implement feature X", "Write docs"}, r \in BOOLEAN}
        \cup {[success |-> FALSE, error |-> e] :
                  e \in {"Failed to generate subgoals", "No API key", ""}}

InitCli ==
    /\ goals = [g \in {} |-> GoalRecord(g, "")]
    /\ cli = [pc |-> "idle", goal_id |-> "", agent_calls |-> <<>>, agent_result |-> None,
              returned |-> None, errors |-> <<>>]

NextGoalCli ==
    \/ \E g \in GoalIds : DecomposeExistingGoal(g)
    \/ \E res \in AgentResults : AgentReturns(res)

vars == <<planVars, repoVars, cliVars>>

Init == InitPlan /\ InitRepo /\ InitCli

\* decompose_goal, called again and again.
SpecDecomposer == Init /\ [][NextDecomposer]_vars

\* decompose_goal with a model that may also never answer. The event loop resumes
\* the call as soon as the request has answered or failed, and the caller calls
\* again after a call has ended: no step that can be taken is put off forever.
MaxAwaitedLines == 2

AwaitedReplies == {Text(JoinLines(ls)) : ls \in SeqsUpTo(ReplyLines, MaxAwaitedLines)} \cup {NoText}

NextAwaiting ==
    \/ \E ctx \in Contexts : Decompose(ctx)
    \/ \E content \in AwaitedReplies : ModelAnswers(content)
    \/ \E cause \in {"Connection error.", "Request timed out."} : ModelFails(cause)
    \/ ModelSilent

SpecAwaiting == Init /\ [][NextAwaiting]_vars /\ WF_vars(NextAwaiting)

\* The operations of tools.py on one working copy, one after the other.
SpecRepo == Init /\ [][NextRepo]_vars

\* The operations of tools.py with a second pipeline on the same working copy.
NextRace ==
    \/ NextRepo
    \/ \E exists \in BOOLEAN : OtherPipelineEdits(exists)

SpecRace == Init /\ [][NextRace]_vars

\* The parser on every response of ParserForms, and the validator on its draft.
InitParser ==
    /\ InitRepo
    /\ InitCli
    /\ \E f \in ParserForms : form = f /\ response = Text(Render(f))
    /\ dpc = "Idle"
    /\ context = TaskContext(None, 0, MaxBudget)
    /\ strategy = None
    /\ verdict = "unset"
    /\ outcome = NoOutcome
    /\ modelCalls = 0
    /\ tracked = 0
    /\ phases = <<>>
    /\ request = "none"

\* Parse, then validate: the two calls decompose_goal makes on the model's answer.
NextParser == Parse \/ Validate

SpecParser == InitParser /\ [][NextParser]_vars

\* The validator on every draft plan and context of DraftPlans and ValidatorContexts.
InitValidator ==
    /\ InitRepo
    /\ InitCli
    /\ strategy \in DraftPlans
    /\ context \in ValidatorContexts
    /\ dpc = "Idle"
    /\ response = NoText
    /\ verdict = "unset"
    /\ outcome = NoOutcome
    /\ modelCalls = 0
    /\ tracked = 0
    /\ phases = <<>>
    /\ request = "none"
    /\ form = None

SpecValidator == InitValidator /\ [][Validate]_vars

\* decompose_existing_goal on every goal store of GoalStores.
InitGoalCli ==
    /\ InitPlan
    /\ InitRepo
    /\ goals \in GoalStores
    /\ cli = [pc |-> "idle", goal_id |-> "", agent_calls |-> <<>>, agent_result |-> None,
              returned |-> None, errors |-> <<>>]

SpecGoalCli == InitGoalCli /\ [][NextGoalCli]_vars

\* ============================================================ properties

\* The working copy holds staged, unstaged or untracked changes or unmerged paths.
HasUncommittedChanges(r) == r.staged \/ r.unstaged \/ r.untracked \/ r.unmerged

\* A call of decompose_goal has been made and has not been answered by a later one.
Called == dpc # "Idle"

\* C1: for every TaskContext whose goal is missing or whose total_budget is <= 0,
\* decompose_goal fails with InvalidContext (a ValueError) and no external model
\* call is issued: the call goes from Idle straight to its end, never to
\* AwaitingModel.
C1_InvalidContextRefused ==
    (Called /\ (context.goal = None \/ context.total_budget <= 0))
        => /\ dpc = "Done"
           /\ outcome.kind = "InvalidContext"
           /\ outcome.exception = "ValueError"
           /\ modelCalls = 0
           /\ phases = <<"Idle">>

\* A call with a goal and a budget of zero has been refused.
C1_Witness ==
    /\ dpc = "Done"
    /\ context.goal # None
    /\ context.total_budget = 0
    /\ outcome.kind = "InvalidContext"

\* C3: revert_to_hash and checkout_branch on a working copy with uncommitted
\* changes fail with PreconditionFailed, run neither git reset nor git checkout,
\* and leave the hash, the branch and the changes of the working copy as they were.
C3_DirtyRefused ==
    /\ (rpc \in {"revert_reset", "checkout_switch"}) => ~HasUncommittedChanges(pre)
    /\ (/\ rpc = "idle"
        /\ op.name \in {"revert_to_hash", "checkout_branch"}
        /\ HasUncommittedChanges(pre))
           => /\ result.kind = "PreconditionFailed"
              /\ "reset" \notin Range(cmds)
              /\ "checkout" \notin Range(cmds)
              /\ repo = pre

\* revert_to_hash has returned on a working copy that held an unstaged change.
C3_Witness ==
    /\ rpc = "idle"
    /\ op.name = "revert_to_hash"
    /\ pre.unstaged
    /\ result.kind = "PreconditionFailed"

C5_CheckpointBranch ==
    (rpc = "idle" /\ op.name = "create_branch" /\ result.kind = "ok")
        => /\ Len(result.value) = Len(op.base_name) + 1 + 6
           /\ SubSeq(result.value, 1, Len(op.base_name)) = op.base_name
           /\ result.value[Len(op.base_name) + 1] = "-"
           /\ \A i \in (Len(op.base_name) + 2)..Len(result.value) :
                  result.value[i] \in Range(LowerLetters) \cup Range(DigitChars)
           /\ repo.branch = result.value
           /\ repo.head = pre.head
           /\ HashOf(repo.head) = HashOf(pre.head)

\* A branch has been created from a commit other than the first one.
C5_Witness ==
    /\ rpc = "idle"
    /\ op.name = "create_branch"
    /\ result.kind = "ok"
    /\ repo.branch # pre.branch
    /\ pre.head > 1

\* The positions of the criteria covered by some step: criterion j is covered when
\* some word of it longer than 3 characters occurs, lower-cased, in a lower-cased step.
CoveredPositions(steps, criteria) ==
    {j \in 1..Len(criteria) : \E i \in 1..Len(steps) : StepCovers(steps[i], criteria[j])}

\* The number of covered criteria reaches (number of criteria) x success_threshold.
CoverageReached(steps, goal) ==
    Cardinality(CoveredPositions(steps, goal.validation_criteria)) * 10
        >= Len(goal.validation_criteria) * goal.success_threshold

\* The coverage check as the specification words it: skipped without criteria.
CoverageCheckPasses(plan, ctx) ==
    \/ ctx.goal = None
    \/ ctx.goal.validation_criteria = <<>>
    \/ CoverageReached(plan.steps, ctx.goal)

\* Checks 1 to 4 of the validator.
FirstFourPass(plan, ctx) ==
    /\ plan.steps # <<>>
    /\ plan.reasoning # <<>>
    /\ plan.estimated_points > 0
    /\ plan.estimated_points <= ctx.total_budget

\* C2: for every draft plan and context the validator accepts the plan if and
\* only if all five checks pass (steps non-empty, reasoning non-empty,
\* estimated_points > 0, estimated_points <= total_budget, the coverage check);
\* a plan failing any single check is rejected.
C2_AcceptsIffAllChecksPass ==
    verdict # "unset"
        => (verdict = Accepted
                <=> (FirstFourPass(strategy, context) /\ CoverageCheckPasses(strategy, context)))

\* C8: a plan passing checks 1 to 4 is accepted iff the number of covered criteria
\* is at least (number of criteria) x success_threshold, and is rejected with
\* InsufficientCriteriaCoverage otherwise; without criteria the check is skipped.
C8_CoverageCountsCriteria ==
    (verdict # "unset" /\ FirstFourPass(strategy, context))
        => IF CoverageCheckPasses(strategy, context)
           THEN verdict = Accepted
           ELSE verdict = InsufficientCriteriaCoverage

\* C6: a response of the plan form (Strategy:, Steps:, bullets, Reasoning:,
\* Points: n) parses to the bullet texts in their order, the text after
\* Reasoning:, and n, whatever the case of the headers and wherever a blank line is.
C6_PlanFormParsed ==
    (strategy # None /\ form.kind = "plan")
        => /\ strategy.raised = "none"
           /\ strategy.steps = form.bullets
           /\ strategy.reasoning = form.reasoning
           /\ strategy.estimated_points = form.points

\* The stripped lines of a text that start, lower-cased, with points:
PointsLines(text) ==
    {l \in {Strip(x) : x \in Range(SplitChar(text, "\n"))} : StartsWith(Lower(l), PointsHeader)}

\* The text has a points: line and no points: line whose value is an integer.
OnlyUnreadablePoints(text) ==
    /\ PointsLines(text) # {}
    /\ \A l \in PointsLines(text) : ~IntOf(AfterColon(l).text).ok

\* C7: the parser never raises, whatever the response text; a response whose
\* points: lines hold no integer parses to a draft with estimated_points = 0, and
\* that draft, when it has steps and reasoning, is rejected with InvalidPointEstimate.
C7_ParserTolerant ==
    /\ strategy # None => strategy.raised = "none"
    /\ (strategy # None /\ OnlyUnreadablePoints(response.text))
           => strategy.estimated_points = 0
    /\ (/\ verdict # "unset"
        /\ OnlyUnreadablePoints(response.text)
        /\ strategy.steps # <<>>
        /\ strategy.reasoning # <<>>) => verdict = InvalidPointEstimate

\* A response with steps, reasoning and an unreadable points: line has been parsed
\* and its draft rejected.
C7_Witness ==
    /\ form.kind = "lines"
    /\ OnlyUnreadablePoints(response.text)
    /\ strategy # None
    /\ strategy.steps # <<>>
    /\ strategy.reasoning # <<>>
    /\ verdict = InvalidPointEstimate

\* C9: once the request to the model has been issued, every failure (the request
\* raising, no content, a draft the validator rejects) reaches the caller as one
\* DecompositionFailed whose message carries the underlying message, and a plan
\* is returned only when the validator accepts it.
C9_FailuresSurface ==
    (dpc = "Done" /\ modelCalls = 1)
        => /\ outcome.kind \in {"plan", "DecompositionFailed"}
           /\ outcome.kind = "plan"
                => /\ response.present
                   /\ outcome.plan = ParseResponse(response.text)
                   /\ ValidateStrategy(outcome.plan, context) = Accepted
           /\ outcome.kind = "DecompositionFailed"
                => /\ outcome.exception = "Exception"
                   /\ Len(outcome.message) = 2
                   /\ IF response.raised # "none" THEN outcome.message[2] = response.raised
                      ELSE IF ~response.present THEN outcome.message[2] \notin {<<>>, ""}
                      ELSE /\ outcome.message[2] = ValidateStrategy(ParseResponse(response.text), context)
                           /\ outcome.message[2] # Accepted

\* A draft over the budget has reached the caller as DecompositionFailed.
C9_Witness ==
    /\ dpc = "Done"
    /\ modelCalls = 1
    /\ response.present
    /\ verdict = BudgetExceeded
    /\ outcome = DecompositionFailed(BudgetExceeded)

\* C10: whenever create_branch, revert_to_hash, create_commit or checkout_branch
\* returns an error, the repository (hash, branch, index, working tree) is as it
\* was before the call.
C10_AllOrNothing ==
    (/\ rpc = "idle"
     /\ op.name \in {"create_branch", "revert_to_hash", "create_commit", "checkout_branch"}
     /\ result.kind \notin {"ok", "none"}) => repo = pre

\* C11: decompose_goal never returns a StrategyPlan for a context in which
\* points_consumed > total_budget: the invariant points_consumed <= total_budget
\* is checked again before a plan is returned.
C11_BudgetInvariantRechecked ==
    (dpc = "Done" /\ outcome.kind = "plan")
        => context.points_consumed <= context.total_budget

\* C12: the request to the model is bounded by a timeout: every decompose_goal
\* call that waits for the model eventually ends, with a plan or with
\* DecompositionFailed, also when the request is never answered.
C12_CallEnds ==
    (dpc = "AwaitingModel")
        ~> (dpc = "Done" /\ outcome.kind \in {"plan", "DecompositionFailed"})

\* C13: Clean, Dirty and Conflicted exclude one another, and revert_to_hash and
\* checkout_branch are legal from Clean only: while a merge is in progress
\* check_repo_state does not report is_clean and reports has_merge_conflicts or
\* has_rebase_conflicts, and revert_to_hash and checkout_branch are refused with
\* PreconditionFailed.
C13_ConflictedIsNotClean ==
    /\ (rpc = "idle" /\ op.name = "check_repo_state" /\ pre.merging /\ result.kind = "ok")
           => /\ ~result.value.is_clean
              /\ result.value.has_merge_conflicts \/ result.value.has_rebase_conflicts
    /\ (rpc = "idle" /\ op.name \in {"revert_to_hash", "checkout_branch"} /\ pre.merging)
           => result.kind = "PreconditionFailed"

\* C14: decompose_existing_goal(goal_id) returns True exactly when the goal has a
\* record and the agent's result has success = True; it calls the agent exactly
\* once, with the goal's description and parent_goal = goal_id; on a result with
\* success = False it returns False and reports the carried error; without a
\* record for goal_id it returns False.
C14_DecomposeExistingGoal ==
    cli.pc = "done"
        => /\ cli.returned \in BOOLEAN
           /\ cli.returned
                <=> (cli.goal_id \in DOMAIN goals /\ cli.agent_result # None
                        /\ cli.agent_result.success)
           /\ cli.goal_id \in DOMAIN goals
                => /\ Len(cli.agent_calls) = 1
                   /\ cli.agent_calls[1].goal = goals[cli.goal_id].description
                   /\ cli.agent_calls[1].parent_goal = cli.goal_id
           /\ cli.goal_id \notin DOMAIN goals => cli.agent_calls = <<>>
           /\ (cli.agent_result # None /\ ~cli.agent_result.success)
                => \E i \in 1..Len(cli.errors) :
                       cli.errors[i][Len(cli.errors[i])] = cli.agent_result.error

\* The agent has failed on a stored goal and the error has been reported.
C14_Witness ==
    /\ cli.pc = "done"
    /\ cli.goal_id \in DOMAIN goals
    /\ cli.agent_result # None
    /\ ~cli.agent_result.success
    /\ cli.returned = FALSE
    /\ cli.errors # <<>>

\* C15: the validator's checks run in the order EmptyPlan, MissingReasoning,
\* InvalidPointEstimate, BudgetExceeded, InsufficientCriteriaCoverage: a plan is
\* rejected with the error of the first check it violates in that order, and the
\* five errors are pairwise distinct.
C15_FirstViolatedCheckReported ==
    /\ Cardinality({EmptyPlan, MissingReasoning, InvalidPointEstimate, BudgetExceeded,
                    InsufficientCriteriaCoverage}) = 5
    /\ verdict # "unset"
        => IF strategy.steps = <<>> THEN verdict = EmptyPlan
           ELSE IF strategy.reasoning = <<>> THEN verdict = MissingReasoning
           ELSE IF strategy.estimated_points <= 0 THEN verdict = InvalidPointEstimate
           ELSE IF strategy.estimated_points > context.total_budget THEN verdict = BudgetExceeded
           ELSE ~CoverageCheckPasses(strategy, context) => verdict = InsufficientCriteriaCoverage

\* A plan with no steps, no reasoning and a zero estimate has been reported as an
\* empty plan.
C15_Witness ==
    /\ verdict = EmptyPlan
    /\ strategy.steps = <<>>
    /\ strategy.reasoning = <<>>
    /\ strategy.estimated_points = 0

\* The steps of one call in the order the specification gives them; a call that
\* fails after the request goes from where it is to Rejected.
PhaseEdges ==
    {<<"Idle", "PromptBuilt">>, <<"PromptBuilt", "AwaitingModel">>,
     <<"AwaitingModel", "ParsedDraft">>, <<"AwaitingModel", "Rejected">>,
     <<"ParsedDraft", "Validated">>, <<"ParsedDraft", "Rejected">>}

\* C16: within one decompose_goal call the steps are strictly sequential,
\* Idle -> PromptBuilt -> AwaitingModel -> ParsedDraft -> Validated|Rejected: at most
\* one request to the model per call, the draft is parsed from the response, the
\* verdict is the validator's on that draft, and a plan is returned only from
\* Validated, so a returned plan has steps, reasoning and
\* 0 < estimated_points <= total_budget.
C16_SequentialCall ==
    /\ modelCalls <= 1
    /\ phases # <<>> => phases[1] = "Idle"
    /\ \A i \in 1..(Len(phases) - 1) : <<phases[i], phases[i + 1]>> \in PhaseEdges
    /\ (\E i \in 1..Len(phases) : phases[i] = "ParsedDraft")
           => /\ response.present
              /\ modelCalls = 1
              /\ strategy = ParseResponse(response.text)
              /\ verdict = ValidateStrategy(strategy, context)
    /\ outcome.kind = "plan"
           => /\ phases = <<"Idle", "PromptBuilt", "AwaitingModel", "ParsedDraft", "Validated">>
              /\ outcome.plan = strategy
              /\ outcome.plan.steps # <<>>
              /\ outcome.plan.reasoning # <<>>
              /\ outcome.plan.estimated_points > 0
              /\ outcome.plan.estimated_points <= context.total_budget

\* A call has run through all five steps and returned its plan.
C16_Witness ==
    /\ dpc = "Done"
    /\ outcome.kind = "plan"
    /\ phases[Len(phases)] = "Validated"
    /\ modelCalls = 1

\* The line, stripped and lower-cased, starts with one of the four header tokens.
HeaderLine(line) ==
    \E h \in {StrategyHeader, StepsHeader, ReasoningHeader, PointsHeader} :
        StartsWith(Lower(Strip(line)), h)

\* The places of the non-header, non-blank lines that directly follow a points: line.
ContentAfterPoints(lines) ==
    {i \in 2..Len(lines) :
        /\ StartsWith(Lower(Strip(lines[i - 1])), PointsHeader)
        /\ Strip(lines[i]) # <<>>
        /\ ~HeaderLine(lines[i])}

\* C17: a points: line switches the parser's current section like every other
\* header: a non-header, non-blank line that follows a points: line leaves the
\* reasoning text as it was, even when the section before the points: line was
\* reasoning.
C17_PointsHeaderSwitchesSection ==
    (form # None /\ form.kind = "lines" /\ strategy # None)
        => \A i \in ContentAfterPoints(form.lines) :
               ParseLines(ParserStart, SubSeq(form.lines, 1, i)).reasoning
                   = ParseLines(ParserStart, SubSeq(form.lines, 1, i - 1)).reasoning

\* The errors of the validator.
ValidatorErrors ==
    {EmptyPlan, MissingReasoning, InvalidPointEstimate, BudgetExceeded,
     InsufficientCriteriaCoverage}

\* C18: a call that ends with a plan rejected by the validator, or with
\* InvalidContext, has no side effect: the repository (hash, branch, working tree)
\* and the TaskContext are as they were, and the call has charged no points to the
\* points accounting.
C18_RejectionHasNoSideEffect ==
    [][/\ (dpc' = "Done" /\ outcome'.kind = "InvalidContext")
              => (UNCHANGED repoVars /\ tracked' = 0)
       /\ (dpc' = "Done" /\ outcome'.kind = "DecompositionFailed" /\ verdict' \in ValidatorErrors)
              => (UNCHANGED repoVars /\ context' = context /\ tracked' = 0)]_vars

\* Clean: no pending changes and no merge in progress.
Clean(r) == ~HasUncommittedChanges(r) /\ ~r.merging

\* validate_repository_state(h) would succeed on r: the status is clean and the
\* current hash is h.
ValidateWouldSucceed(r, h) ==
    /\ CheckRepoState(GitStatus(r)).kind = "ok"
    /\ CheckRepoState(GitStatus(r)).value.is_clean
    /\ GetCurrentHash(GitRevParseHead(r)) = Ok(h)

\* C19: after a successful create_commit on a repository with pending changes the
\* returned hash is the current hash, differs from the hash before the call, the
\* repository is Clean and validate_repository_state with the returned hash
\* succeeds; create_commit on a Clean repository (nothing to commit) fails with
\* GitCommandFailed and leaves the current hash unchanged.
C19_CommitAll ==
    /\ (/\ rpc = "idle"
        /\ op.name = "create_commit"
        /\ result.kind = "ok"
        /\ HasUncommittedChanges(pre))
           => /\ GetCurrentHash(GitRevParseHead(repo)) = Ok(result.value)
              /\ result.value # HashOf(pre.head)
              /\ Clean(repo)
              /\ ValidateWouldSucceed(repo, result.value)
    /\ (rpc = "idle" /\ op.name = "create_commit" /\ Clean(pre))
           => /\ result.kind = "GitCommandFailed"
              /\ HashOf(repo.head) = HashOf(pre.head)

\* A working copy with an untracked file has been committed.
C19_Witness ==
    /\ rpc = "idle"
    /\ op.name = "create_commit"
    /\ result.kind = "ok"
    /\ pre.untracked
    /\ repo.head # pre.head

\* C20: after a successful revert_to_hash(h) from a Clean repository the current
\* hash is h, the current branch is the one before the call, the repository is
\* still Clean and validate_repository_state(h) succeeds; when the reset itself
\* fails (unknown hash) revert_to_hash fails with GitCommandFailed and the current
\* hash is unchanged.
C20_RevertTo ==
    /\ (rpc = "idle" /\ op.name = "revert_to_hash" /\ result.kind = "ok" /\ Clean(pre))
           => /\ GetCurrentHash(GitRevParseHead(repo)) = Ok(op.git_hash)
              /\ repo.branch = pre.branch
              /\ Clean(repo)
              /\ ValidateWouldSucceed(repo, op.git_hash)
    /\ (rpc = "idle" /\ op.name = "revert_to_hash" /\ Clean(pre)
            /\ CommitOf(pre, op.git_hash) = 0)
           => /\ result.kind = "GitCommandFailed"
              /\ "reset" \in Range(cmds)
              /\ HashOf(repo.head) = HashOf(pre.head)
    /\ (rpc = "idle" /\ op.name = "revert_to_hash" /\ result.kind = "GitCommandFailed")
           => HashOf(repo.head) = HashOf(pre.head)

\* A clean working copy has been taken back from its second commit to its first.
C20_Witness ==
    /\ rpc = "idle"
    /\ op.name = "revert_to_hash"
    /\ result.kind = "ok"
    /\ Clean(pre)
    /\ pre.head = 2
    /\ repo.head = 1

\* C21: with one pipeline on the working copy, the hard reset of revert_to_hash and
\* the switch of checkout_branch are only ever executed while the repository is
\* Clean, so no sequence of operations discards uncommitted or untracked changes.
C21_MutationsOnlyFromClean ==
    /\ (rpc \in {"revert_reset", "checkout_switch"}) => Clean(repo)
    /\ (/\ rpc = "idle"
        /\ op.name \in {"revert_to_hash", "checkout_branch"}
        /\ ("reset" \in Range(cmds) \/ "checkout" \in Range(cmds)))
           => Clean(pre)

\* C22: nothing is locked between the status check of revert_to_hash or
\* checkout_branch and its git command: when another pipeline's change has landed
\* in between, the operation, having seen a clean status, still runs its reset or
\* checkout on the Dirty repository and does not fail with PreconditionFailed.
C22_CheckThenActRace ==
    [][(/\ rpc \in {"revert_reset", "checkout_switch"}
        /\ rpc' = "idle"
        /\ HasUncommittedChanges(repo))
           => /\ observed.kind = "ok"
              /\ observed.value.is_clean
              /\ Range(cmds') \cap {"reset", "checkout"} # {}
              /\ result'.kind # "PreconditionFailed"
              /\ op.name = "revert_to_hash" /\ result'.kind = "ok"
                     => ~repo'.staged /\ ~repo'.unstaged]_vars

\* revert_to_hash has seen a clean status and has run its reset with an untracked
\* file in the working copy that was not there when it was called.
C22_Witness ==
    /\ rpc = "idle"
    /\ op.name = "revert_to_hash"
    /\ result.kind = "ok"
    /\ observed.value.is_clean
    /\ "reset" \in Range(cmds)
    /\ ~pre.untracked
    /\ repo.untracked

\* C23: when the name drawn by create_branch exists already, create_branch fails
\* with GitCommandFailed, the existing branch is neither switched to nor moved, and
\* the current branch and hash are as before, so that the caller can call again;
\* every call draws its own suffix.
C23_CollisionRefused ==
    /\ (/\ rpc = "idle"
        /\ op.name = "create_branch"
        /\ BranchName(op.base_name, op.suffix) \in DOMAIN pre.branches)
           => /\ result.kind = "GitCommandFailed"
              /\ repo.branches = pre.branches
              /\ repo.branch = pre.branch
              /\ repo.head = pre.head
              /\ repo = pre
    /\ (rpc = "idle" /\ op.name = "create_branch" /\ result.kind = "ok")
           => /\ BranchName(op.base_name, op.suffix) \notin DOMAIN pre.branches
              /\ result.value = BranchName(op.base_name, op.suffix)

\* The name drawn was that of a branch made by an earlier call, other than the
\* current one.
C23_Witness ==
    /\ rpc = "idle"
    /\ op.name = "create_branch"
    /\ result.kind = "GitCommandFailed"
    /\ BranchName(op.base_name, op.suffix) \in DOMAIN pre.branches
    /\ pre.branch # BranchName(op.base_name, op.suffix)

\* C24: when every validation criterion of the goal is covered by at least one
\* step, the coverage check passes for every success_threshold and every criteria
\* list, lists in which the same criterion text occurs more than once included: a
\* plan that passes checks 1 to 4 is then accepted.
C24_AllCoveredPasses ==
    (/\ verdict # "unset"
     /\ FirstFourPass(strategy, context)
     /\ context.goal # None
     /\ CoveredPositions(strategy.steps, context.goal.validation_criteria)
            = 1..Len(context.goal.validation_criteria))
        => verdict = Accepted

\* C25: every step of a plan produced by the parser is a non-empty string: a bullet
\* line of '-' characters and spaces only creates no step, so a plan whose steps
\* are all blank does not pass the EmptyPlan check.
C25_StepsNonEmpty ==
    (strategy # None /\ strategy.raised = "none")
        => /\ \A i \in 1..Len(strategy.steps) : strategy.steps[i] # <<>>
           /\ (verdict \notin {"unset", EmptyPlan})
                  => \E i \in 1..Len(strategy.steps) : strategy.steps[i] # <<>>

\* The places of the points: lines of a response.
PointsPlaces(lines) ==
    {i \in 1..Len(lines) : StartsWith(Lower(Strip(lines[i])), PointsHeader)}

\* The integer a points: line gives, if its value is one.
PointsValue(line) == IntOf(Strip(AfterColon(Strip(line)).text))

\* The places of the points: lines whose value is an integer.
ReadablePlaces(lines) == {i \in PointsPlaces(lines) : PointsValue(lines[i]).ok}

\* C26: for a response with several points: lines the parsed estimated_points is
\* the integer of the last points: line whose value is an integer, and 0 when no
\* points: line has one; a later points: line without an integer does not set an
\* earlier value back; a points: line is recognized in every section and adds
\* nothing to the steps or the reasoning.
C26_LastReadablePointsWin ==
    (form # None /\ form.kind = "lines" /\ strategy # None)
        => /\ strategy.raised = "none"
           /\ strategy.estimated_points
                  = IF ReadablePlaces(form.lines) = {} THEN 0
                    ELSE PointsValue(form.lines[MaxOf(ReadablePlaces(form.lines))]).val
           /\ \A i \in PointsPlaces(form.lines) :
                  \A before \in {ParseLines(ParserStart, SubSeq(form.lines, 1, i - 1))} :
                      \A after \in {ParseLine(before, form.lines[i])} :
                          after.steps = before.steps /\ after.reasoning = before.reasoning

\* Two points: lines with different integers are followed by one without an
\* integer, and the estimate is that of the second.
C26_Witness ==
    /\ form # None
    /\ form.kind = "lines"
    /\ strategy # None
    /\ \E i, j, k \in 1..Len(form.lines) :
           /\ i < j /\ j < k
           /\ {i, j} \subseteq ReadablePlaces(form.lines)
           /\ k \in PointsPlaces(form.lines) \ ReadablePlaces(form.lines)
           /\ PointsValue(form.lines[i]).val # PointsValue(form.lines[j]).val
           /\ strategy.estimated_points = PointsValue(form.lines[j]).val

====
